---------------------------- MODULE Spec2Model ----------------------------
(***************************************************************************)
(* A model of TrainerController (mlagents/trainers/trainer_controller.py): *)
(* the control thread running start_learning, the worker threads running   *)
(* trainer_update_func, and the environment, the trainers, the curriculum, *)
(* the ghost controller and the completion listener as nondeterministic    *)
(* collaborators.  Every side effect the controller asks of a collaborator *)
(* (a checkpoint round, a join, a notification, an export) is appended to  *)
(* the history variable log in the order the code performs it.             *)
(***************************************************************************)
EXTENDS Integers, Sequences, FiniteSets, TLC

\* ------------------------------------------------------------------ bounds
MaxStep == 4            \* the global step counter is explored up to here
MaxBatch == 2           \* env.advance returns 0..MaxBatch steps
MaxFreq == 2            \* save_freq ranges over 1..MaxFreq
MaxInterval == 2        \* resampling_interval: None, 0, 1..MaxInterval
MaxWired == 2           \* an identifier is wired at most this often

\* ------------------------------------------------------ program constants
\* The capacity of a trainer's reward_buffer (the trainer's reward_buff_cap)
\* is the min_lesson_length initialize_trainer passes to it.
min_lesson_length == 1

\* --------------------------------------------------- behavior identifiers
\* A name_behavior_id is a string, here the sequence of its characters.
Ids == { <<"A", "?", "0">>, <<"A", "?", "1">>, <<"B", "?", "0">> }

\* The last index of character c in s, 0 when c does not occur (rsplit).
RECURSIVE LastIndexOf(_, _, _)
LastIndexOf(s, c, i) ==
  IF i = 0 THEN 0
  ELSE IF s[i] = c THEN i ELSE LastIndexOf(s, c, i - 1)

\* BehaviorIdentifiers.from_name_behavior_id(...).brain_name: the text in
\* front of the last "?", the whole name when it holds no "?".
BrainName(id) ==
  LET q == LastIndexOf(id, "?", Len(id))
  IN  IF q = 0 THEN id ELSE SubSeq(id, 1, q - 1)

Brains == { BrainName(id) : id \in Ids }

\* Optional[int]: <<>> is None, <<n>> is the integer n.
None == <<>>
Some(n) == <<n>>
Truthy(o) == o # None /\ o[1] # 0

Intervals == { None } \cup { Some(n) : n \in 0..MaxInterval }

\* The exceptions the model raises.  The first four are the ones the except
\* clause of start_learning names; "other" is any exception it does not
\* name (a trainer error, a TrainerConfigError of the factory); "post" is
\* the failure of requests.post.
Handled == { "KeyboardInterrupt", "UnityCommunicatorStoppedException",
             "UnityCommunicationException", "UnityEnvironmentException" }
Swallowed == { "KeyboardInterrupt", "UnityCommunicatorStoppedException" }
EnvFailures == Handled \ { "KeyboardInterrupt" }

VARIABLES
  \* constructor arguments (__init__)
  train_model, save_freq, resampling_interval, sampler_empty, meta_curriculum,
  \* the environment: the identifiers of the behaviors it holds, and
  \* whether a behavior it reported once is in every later report
  env_behaviors, env_keeps_behaviors,
  \* fields of the controller
  trainers,                   \* brain name -> [threaded: BOOLEAN]
  brain_name_to_identifier,   \* brain name -> set of ids
  trainer_threads,            \* the list of thread handles (by brain name)
  agent_managers,             \* id -> how many AgentManagers were set for it
  kill_trainers,
  \* locals of start_learning and the control thread's position
  pc, global_step, steps_left, last_brain_behavior_ids,
  advance_calls,              \* brain name -> calls of trainer.advance() by
                              \* the control thread in this iteration
  external_brain_behavior_ids, new_behavior_ids,
  raised,                     \* the exception raised inside the try block
  escaping,                   \* the exception propagating out of the call
  \* the trainer factory: its trainer_config, and the outcome of a call of
  \* generate made on its own
  trainer_config, generated,
  \* the trainers' own state
  reward_buffer,              \* brain name -> length of the reward deque
  should_still_train,         \* brain name -> Trainer.should_still_train
  thread,                     \* brain name -> state of its worker thread
  \* history
  log, steps_done, gen_count, reset_info

cfg == <<train_model, save_freq, resampling_interval, sampler_empty,
         meta_curriculum, env_behaviors, env_keeps_behaviors>>
ctl == <<pc, global_step, steps_left, advance_calls, last_brain_behavior_ids,
         external_brain_behavior_ids, new_behavior_ids, raised, escaping>>
reg == <<trainers, brain_name_to_identifier, trainer_threads,
         agent_managers>>
tst == <<reward_buffer, should_still_train>>
hist == <<log, steps_done, gen_count, reset_info>>
fac == <<trainer_config, generated>>
vars == <<cfg, fac, ctl, reg, kill_trainers, tst, thread, hist>>

\* The canonical value of reset_info outside a step.
NoReset == [lessons |-> {}, ghost |-> FALSE, calls |-> 0, env_resets |-> 0,
            end_episodes |-> {}, generalization_reset |-> FALSE,
            modulo_by |-> {}, sampled |-> <<>>, curriculum |-> <<>>,
            config |-> <<>>, trace |-> <<>>]

\* --------------------------------- trainer_util.py: initialize_trainer
\* The name of the section every brain falls back to.
DefaultSection == <<"d", "e", "f", "a", "u", "l", "t">>

\* The keys of a section that initialize_trainer reads.
SectionKeys == { "trainer", "self_play", "behavioral_cloning",
                 "reward_signals" }

\* The values a key of a section may have: the trainer's kind for "trainer"
\* (three kinds the code names and one it does not), a dict with no key of
\* interest for "self_play" and "behavioral_cloning", and the names of the
\* reward signals configured for "reward_signals".
SectionValues(k) ==
  IF k = "trainer"
  THEN { <<"ppo">>, <<"sac">>, <<"offline_bc">>, <<"dqn">> }
  ELSE IF k = "reward_signals"
  THEN { <<"extrinsic">>, <<"extrinsic", "gail">> }
  ELSE { <<>> }

\* Every section: a dict over some of the keys.
Sections ==
  UNION { { f \in [K -> UNION { SectionValues(k) : k \in SectionKeys }] :
              \A k \in K : f[k] \in SectionValues(k) } :
          K \in SUBSET SectionKeys }

\* Every trainer_config: a default section or none, a section for brain A
\* or none, and never one for brain B.
TrainerConfigs ==
  UNION { [N -> Sections] : N \in SUBSET { DefaultSection, <<"A">> } }

\* A trainer_config whose default section has every key but "self_play".
CompleteConfig ==
  DefaultSection :> [k \in SectionKeys \ {"self_play"} |->
                       IF k = "trainer" THEN <<"ppo">>
                       ELSE IF k = "reward_signals"
                       THEN <<"extrinsic", "gail">> ELSE <<>>]

\* The outcome of a call: the exception it raises ("none" when it returns)
\* and the trainer it returns (<<>> when it raises).
Raise(brain, e) == [brain |-> brain, raises |-> e, trainer |-> <<>>]
Return(brain, kind, ghost) ==
  [brain |-> brain, raises |-> "none",
   trainer |-> << [kind |-> kind, ghost |-> ghost] >>]
NotGenerated == [brain |-> <<>>, raises |-> "none", trainer |-> <<>>]

\* trainer_parameters of lines 106-120: a copy of the default section, or
\* {}, updated with the brain's section when there is one.
TrainerParameters(config, brain) ==
  LET default == IF DefaultSection \in DOMAIN config
                 THEN config[DefaultSection] ELSE <<>>
  IN  IF brain \in DOMAIN config
      THEN [k \in DOMAIN default \cup DOMAIN config[brain] |->
              IF k \in DOMAIN config[brain]
              THEN config[brain][k] ELSE default[k]]
      ELSE default

\* Whether s holds x.
Holds(s, x) == \E i \in 1..Len(s) : s[i] = x

\* Whether lines 136-137 raise a KeyError: they index
\* trainer_parameters["behavioral_cloning"] and
\* trainer_parameters["reward_signals"]["gail"] whatever the parameters hold.
DemoPathRaises(trainer_parameters) ==
  \/ "behavioral_cloning" \notin DOMAIN trainer_parameters
  \/ "reward_signals" \notin DOMAIN trainer_parameters
  \/ ~Holds(trainer_parameters["reward_signals"], "gail")

\* initialize_trainer(mydemopath, trainer_config, brain_name, ...), lines
\* 100-193, in the order of its statements.
InitializeTrainer(config, brain) ==
  IF DefaultSection \notin DOMAIN config /\ brain \notin DOMAIN config
  THEN Raise(brain, "TrainerConfigError")
  ELSE
    LET trainer_parameters == TrainerParameters(config, brain) IN
    IF DemoPathRaises(trainer_parameters)
    THEN Raise(brain, "KeyError")
    ELSE IF "trainer" \notin DOMAIN trainer_parameters
    THEN Raise(brain, "TrainerConfigError")
    ELSE
      LET trainer_type == trainer_parameters["trainer"][1] IN
      IF trainer_type = "offline_bc"
      THEN Raise(brain, "UnityTrainerException")
      ELSE IF trainer_type \in { "ppo", "sac" }
      THEN Return(brain, trainer_type,
                  "self_play" \in DOMAIN trainer_parameters)
      ELSE Raise(brain, "TrainerConfigError")

\* -------------------------------------------------------------- __init__
\* The state after construction, whatever the constructor's arguments.
Constructed ==
  /\ trainers = <<>>
  /\ brain_name_to_identifier = [b \in Brains |-> {}]
  /\ trainer_threads = <<>>
  /\ agent_managers = [id \in Ids |-> 0]
  /\ kill_trainers = FALSE
  /\ pc = "start"
  /\ global_step = 0
  /\ steps_left = 0
  /\ advance_calls = [b \in Brains |-> 0]
  /\ last_brain_behavior_ids = {}
  /\ external_brain_behavior_ids = {}
  /\ new_behavior_ids = {}
  /\ raised = "none"
  /\ escaping = "none"
  /\ reward_buffer = [b \in Brains |-> 0]
  /\ should_still_train = [b \in Brains |-> TRUE]
  /\ thread = [b \in Brains |-> "none"]
  /\ log = <<>>
  /\ steps_done = 0
  /\ gen_count = [b \in Brains |-> 0]
  /\ reset_info = NoReset
  /\ generated = NotGenerated

\* ------------------------------------------------------- pure operators
\* Mutant: the cadence counts from the step before (an off-by-one).
ShouldSaveModel_OffByOne(step) ==
  (step + 1) % save_freq = 0 /\ step # 0 /\ train_model

\* _should_save_model(global_step)
ShouldSaveModel(step) ==
  step % save_freq = 0 /\ step # 0 /\ train_model

\* Mutant: the loop goes on only while every trainer wants to train.
NotDoneTraining_AllMustTrain ==
  \/ (\A b \in DOMAIN trainers : should_still_train[b]) \/ ~train_model
  \/ Cardinality(DOMAIN trainers) = 0

\* Mutant: an empty trainer map counts as done.
NotDoneTraining_EmptyIsDone ==
  /\ (\E b \in DOMAIN trainers : should_still_train[b]) \/ ~train_model
  /\ Cardinality(DOMAIN trainers) # 0

\* _not_done_training()
NotDoneTraining ==
  \/ (\E b \in DOMAIN trainers : should_still_train[b]) \/ ~train_model
  \/ Cardinality(DOMAIN trainers) = 0

\* Mutant: an unset or zero interval resamples at every step.
GeneralizationReset_UnsetIsEveryStep(steps) ==
  /\ ~sampler_empty
  /\ steps # 0
  /\ Truthy(resampling_interval) => steps % resampling_interval[1] = 0

\* generalization_reset of reset_env_if_ready(steps); the and-chain stops
\* at a falsy resampling_interval, so the modulo is never taken by 0 or None.
GeneralizationReset(steps) ==
  /\ ~sampler_empty
  /\ steps # 0
  /\ Truthy(resampling_interval)
  /\ steps % resampling_interval[1] = 0

\* The divisors "steps % self.resampling_interval" is evaluated with in
\* one evaluation of generalization_reset: the interval when the and-chain
\* gets to its last operand, none when it stops before.
ModuloDivisors(steps) ==
  IF ~sampler_empty /\ steps # 0 /\ Truthy(resampling_interval)
  THEN { resampling_interval } ELSE {}

\* The identifiers one checkpoint or export round calls save_model or
\* export_model for: those bound to a brain that has a trainer.
BoundIds == UNION { brain_name_to_identifier[b] : b \in DOMAIN trainers }

\* _save_model(): one checkpoint round, as a log entry with the place of
\* the call ("loop", "final", "interrupt") and the global step it is made at.
SaveModel(kind) == <<"save", kind, global_step>>

\* _export_graph(): one export round, as a log entry.
ExportGraph == <<"export">>


\* Appending to a deque(maxlen = min_lesson_length): the length stops at the capacity.
Append1(len) == IF len < min_lesson_length THEN len + 1 ELSE len

\* Trainer.advance() of the trainer of brain b, run by its owner: it may
\* use up its step budget (should_still_train turns false for good) and
\* may append a finished episode's reward to reward_buffer.  The controller
\* reads and clears reward buffers only under a meta curriculum (lines 295
\* to 306); without one the model leaves their contents out.
TrainerAdvance(bs, dstep, drew) ==
  /\ should_still_train' =
       [b \in Brains |->
          IF b \in bs /\ b \in dstep THEN FALSE ELSE should_still_train[b]]
  /\ reward_buffer' =
       [b \in Brains |->
          IF b \in bs /\ b \in drew /\ meta_curriculum
          THEN Append1(reward_buffer[b]) ELSE reward_buffer[b]]

\* The loop is left for good, by its test or by an exception: the locals
\* it alone reads are dead from here on.
LeaveLoop ==
  /\ steps_left' = 0
  /\ advance_calls' = [b \in Brains |-> 0]
  /\ last_brain_behavior_ids' = {}
  /\ external_brain_behavior_ids' = {}
  /\ new_behavior_ids' = {}

\* Mutant: an exception the except clause does not name leaves the call
\* without the finally block.
Throw_SkipsFinally(e) ==
  /\ raised' = e
  /\ LeaveLoop
  /\ IF e \in Handled
     THEN pc' = "except" /\ escaping' = escaping
     ELSE pc' = "done" /\ escaping' = e

\* An exception of kind e raised inside the try block of start_learning:
\* control goes to the except clause when the clause names e, and to the
\* finally block with e propagating when it does not.
Throw(e) ==
  /\ raised' = e
  /\ LeaveLoop
  /\ IF e \in Handled
     THEN pc' = "except" /\ escaping' = escaping
     ELSE pc' = "finally" /\ escaping' = e

\* ------------------------------------------------------ _reset_env, 157-169
\* The names of the reset parameters; a dict is a function from some of them.
ResetParams == { "gravity", "scale" }

\* The dicts that give the value v to some of the reset parameters.
Dicts(v) == UNION { [K -> {v}] : K \in SUBSET ResetParams }

\* What sampler_manager.sample_all() may return: a value of its own for
\* every parameter that has a sampler, nothing when the manager is empty.
SampledParams == IF sampler_empty THEN { <<>> } ELSE Dicts("sampled")

\* What the curriculum configuration of line 165 may be: the lesson's value
\* for some parameters under a meta curriculum, {} without one.
CurriculumConfigs == IF meta_curriculum THEN Dicts("lesson") ELSE { <<>> }

\* Mutant: on a key of both dicts the value of d is kept.
Update_KeepsOld(d, e) ==
  [k \in DOMAIN d \cup DOMAIN e |-> IF k \in DOMAIN d THEN d[k] ELSE e[k]]

\* d.update(e): the dict d after the call.
Update(d, e) ==
  [k \in DOMAIN d \cup DOMAIN e |-> IF k \in DOMAIN e THEN e[k] ELSE d[k]]

\* The config _reset_env passes to env.reset.
ResetEnv(sampled_reset_param, new_meta_curriculum_config) ==
  Update(sampled_reset_param, new_meta_curriculum_config)

\* The elements of a set one after the other, as a loop visits them.
RECURSIVE SeqOf(_)
SeqOf(S) ==
  IF S = {} THEN <<>>
  ELSE LET x == CHOOSE y \in S : TRUE IN <<x>> \o SeqOf(S \ {x})

\* The calls of end_trainer_episodes(env, lessons_incremented), in order:
\* the reset of the environment, end_episode() of every trainer, and
\* reward_buffer.clear() for every brain whose lesson changed.
EndTrainerEpisodes(lessons) ==
  LET ts == SeqOf(DOMAIN trainers)
      ls == SeqOf(lessons)
  IN  << <<"env.reset">> >>
      \o [i \in 1..Len(ts) |-> <<"end_episode", ts[i]>>]
      \o [i \in 1..Len(ls) |-> <<"clear", ls[i]>>]

\* ------------------------------------------------- start_learning, 237-243
\* _create_model_path, outside the try block: its failure leaves the call
\* at once.
CreateModelPath ==
  /\ pc = "start"
  /\ \/ pc' = "reset" /\ UNCHANGED <<raised, escaping>>
     \/ /\ pc' = "done"
        /\ raised' = raised
        /\ escaping' = "UnityEnvironmentException"
  /\ UNCHANGED <<cfg, fac, global_step, steps_left, advance_calls,
                 last_brain_behavior_ids,
                 external_brain_behavior_ids, new_behavior_ids, reg,
                 kill_trainers, tst, thread, hist>>

\* The initial reset: _reset_env(env_manager), whose env.reset may fail.
\* reset_info holds the reset's dicts until the loop's first test.
InitialReset ==
  /\ pc = "reset"
  /\ \/ /\ pc' = "loop"
        /\ \E sampled \in SampledParams, curriculum \in CurriculumConfigs :
             reset_info' =
               [NoReset EXCEPT !.sampled = sampled,
                               !.curriculum = curriculum,
                               !.config = ResetEnv(sampled, curriculum),
                               !.trace = << <<"env.reset">> >>]
        /\ UNCHANGED <<raised, escaping, steps_left, advance_calls,
                       last_brain_behavior_ids,
                       external_brain_behavior_ids, new_behavior_ids>>
     \/ (\E e \in Handled : Throw(e)) /\ UNCHANGED reset_info
  /\ UNCHANGED <<cfg, fac, global_step, reg, kill_trainers, tst, thread, log,
                 steps_done, gen_count>>

\* ------------------------------------------------------ the loop, 244-247
\* The loop test, and lines 245-246 of an iteration: the environment
\* reports its active identifiers (env_manager.external_brains.keys()),
\* any set of the behaviors it holds.  An environment that keeps its
\* behaviors reports at least what it reported before; with another one an
\* identifier may be missing from one report and back in a later one
\* (explored until it was wired MaxWired times).
LoopTest ==
  /\ pc = "loop"
  /\ IF NotDoneTraining
     THEN \E ext \in SUBSET env_behaviors :
            /\ env_keeps_behaviors => last_brain_behavior_ids \subseteq ext
            /\ \A id \in ext \ last_brain_behavior_ids :
                 agent_managers[id] < MaxWired
            /\ external_brain_behavior_ids' = ext
            /\ new_behavior_ids' = ext \ last_brain_behavior_ids
            /\ pc' = "create"
            /\ advance_calls' = [b \in Brains |-> 0]
            /\ UNCHANGED <<steps_left, last_brain_behavior_ids>>
     ELSE /\ pc' = "join"
          /\ LeaveLoop
  /\ reset_info' = NoReset
  /\ UNCHANGED <<cfg, fac, global_step, raised, escaping, reg, kill_trainers,
                 tst, thread, log, steps_done, gen_count>>

\* trainer_factory.generate(brain_name): the new trainer, of which the
\* controller reads whether it is threaded (the "threaded" key of the
\* brain's trainer configuration: here set for brain A, unset for brain B).
Generate(brain) == [threaded |-> brain = <<"A">>]

\* Mutant: a thread is made for every new trainer.
SpawnsThread_Always(trainer) == TRUE

\* Whether a thread is made for a newly generated trainer (line 198).
SpawnsThread(trainer) == trainer.threaded

\* Mutant: the lookup of line 194 misses for every identifier.
NeedsTrainer_AlwaysMisses(brain) == TRUE

\* Whether _create_trainer_and_manager finds no trainer for the brain (the
\* KeyError branch of line 194).
NeedsTrainer(brain) == brain \notin DOMAIN trainers

\* Mutant: the identifier takes the place of the brain's binding set.
AddIdentifier_Replaces(brain, id) ==
  [brain_name_to_identifier EXCEPT ![brain] = {id}]

\* self.brain_name_to_identifier[brain_name].add(name_behavior_id), line 219.
AddIdentifier(brain, id) ==
  [brain_name_to_identifier EXCEPT ![brain] = @ \cup {id}]

\* Mutant: the thread is started where it is made.
NewThread_Started == "running"

\* The state of the thread threading.Thread(...) returns (lines 200-202):
\* made, not started.
NewThread == "created"

\* _create_trainer_and_manager(env_manager, id) up to line 222: the trainer
\* is fetched, or generated and stored (with a thread handle when it is
\* threaded); the policy and the agent manager are created and wired; the
\* identifier is bound.  A thread made here is started by the step that
\* follows.
CreateTrainerAndManager(id) ==
  LET brain == BrainName(id) IN
  /\ pc = "create"
  /\ id \in new_behavior_ids
  /\ new_behavior_ids' = new_behavior_ids \ {id}
  /\ IF NeedsTrainer(brain)
     THEN /\ gen_count' = [gen_count EXCEPT ![brain] = @ + 1]
          /\ trainers' = trainers @@ (brain :> Generate(brain))
          /\ IF SpawnsThread(Generate(brain))
             THEN /\ trainer_threads' = Append(trainer_threads, brain)
                  /\ thread' = [thread EXCEPT ![brain] = NewThread]
             ELSE UNCHANGED <<trainer_threads, thread>>
     ELSE UNCHANGED <<gen_count, trainers, trainer_threads, thread>>
  /\ brain_name_to_identifier' = AddIdentifier(brain, id)
  /\ agent_managers' = [agent_managers EXCEPT ![id] = @ + 1]
  /\ pc' = IF NeedsTrainer(brain) /\ SpawnsThread(Generate(brain))
           THEN "start_thread" ELSE pc
  /\ UNCHANGED <<cfg, fac, global_step, steps_left, advance_calls,
                 last_brain_behavior_ids,
                 external_brain_behavior_ids, raised, escaping,
                 kill_trainers, tst, log, steps_done, reset_info>>

\* Lines 225-226 of _create_trainer_and_manager: trainerthread, the thread
\* made in this call, is started.
StartThread(brain) ==
  /\ pc = "start_thread"
  /\ thread[brain] = "created"
  /\ thread' = [thread EXCEPT ![brain] = "running"]
  /\ pc' = "create"
  /\ UNCHANGED <<cfg, fac, global_step, steps_left, advance_calls,
                 last_brain_behavior_ids, external_brain_behavior_ids,
                 new_behavior_ids, raised, escaping, reg, kill_trainers, tst,
                 hist>>

\* trainer_factory.generate raises (a TrainerConfigError, or the KeyError
\* of a configuration without the demonstration sections): nothing is
\* stored, and the except clause does not name the exception.
GenerateFails(id) ==
  LET brain == BrainName(id) IN
  /\ pc = "create"
  /\ id \in new_behavior_ids
  /\ NeedsTrainer(brain)
  /\ gen_count' = [gen_count EXCEPT ![brain] = @ + 1]
  /\ Throw("other")
  /\ UNCHANGED <<cfg, fac, global_step, reg, kill_trainers, tst, thread, log,
                 steps_done, reset_info>>

\* The wiring (create_policy .. subscribe_trajectory_queue) raises after
\* the trainer was generated and stored: a thread handle created for it is
\* in trainer_threads and is never started, and no agent manager was set.
WiringFails(id) ==
  LET brain == BrainName(id) IN
  /\ pc = "create"
  /\ id \in new_behavior_ids
  /\ IF NeedsTrainer(brain)
     THEN /\ gen_count' = [gen_count EXCEPT ![brain] = @ + 1]
          /\ trainers' = trainers @@ (brain :> Generate(brain))
          /\ IF SpawnsThread(Generate(brain))
             THEN /\ trainer_threads' = Append(trainer_threads, brain)
                  /\ thread' = [thread EXCEPT ![brain] = NewThread]
             ELSE UNCHANGED <<trainer_threads, thread>>
     ELSE UNCHANGED <<gen_count, trainers, trainer_threads, thread>>
  /\ Throw("other")
  /\ UNCHANGED <<cfg, fac, global_step, brain_name_to_identifier, agent_managers,
                 kill_trainers, tst, log, steps_done, reset_info>>


\* Mutant: advance(env) advances every trainer, threaded or not.
SyncTrainers_All == DOMAIN trainers

\* The brains whose trainer the control thread advances (not trainer.threaded).
SyncTrainers == { b \in DOMAIN trainers : ~trainers[b].threaded }

\* The calls of trainer.advance() one call of advance(env) makes: the loop
\* of lines 336-339 visits every trainer once and calls the synchronous ones.
ControlAdvanceCalls == [b \in Brains |-> IF b \in SyncTrainers THEN 1 ELSE 0]

Min(a, b) == IF a < b THEN a ELSE b

\* ------------------------------------------ lines 248-249 and advance(env)
\* All new identifiers are handled: last_brain_behavior_ids is updated, the
\* environment advances by a batch of n steps, and every synchronous
\* trainer is advanced once.
Advance ==
  /\ pc = "create"
  /\ new_behavior_ids = {}
  /\ last_brain_behavior_ids' = external_brain_behavior_ids
  /\ external_brain_behavior_ids' = {}
  /\ \E n \in 0..Min(MaxBatch, MaxStep - global_step) :
     \E dstep \in SUBSET SyncTrainers, drew \in SUBSET SyncTrainers :
       /\ TrainerAdvance(SyncTrainers, dstep, drew)
       /\ steps_left' = n
       /\ advance_calls' = ControlAdvanceCalls
       /\ pc' = IF n = 0 THEN "loop" ELSE "step"
  /\ UNCHANGED <<cfg, fac, global_step, new_behavior_ids, raised, escaping, reg,
                 kill_trainers, thread, hist>>

\* env.advance() raises a failure of the environment.
EnvAdvanceFails ==
  /\ pc = "create"
  /\ new_behavior_ids = {}
  /\ \E e \in EnvFailures : Throw(e)
  /\ UNCHANGED <<cfg, fac, global_step, reg, kill_trainers, tst, thread, hist>>

\* trainer.advance() of a synchronous trainer raises (a trainer error).
TrainerAdvanceFails ==
  /\ pc = "create"
  /\ new_behavior_ids = {}
  /\ SyncTrainers # {}
  /\ Throw("other")
  /\ UNCHANGED <<cfg, fac, global_step, reg, kill_trainers, tst, thread, hist>>

\* ------------------------------------------- reset_env_if_ready, 294-320
\* Mutant: one "if" per trigger, each calling end_trainer_episodes.
ResetCalls_PerTrigger(meta_curriculum_reset, generalization_reset, ghost_controller_reset) ==
  (IF meta_curriculum_reset THEN 1 ELSE 0)
  + (IF generalization_reset THEN 1 ELSE 0)
  + (IF ghost_controller_reset THEN 1 ELSE 0)

\* How many times reset_env_if_ready calls end_trainer_episodes, given its
\* three triggers: one "if" over their disjunction.
ResetCalls(meta_curriculum_reset, generalization_reset, ghost_controller_reset) ==
  IF meta_curriculum_reset \/ generalization_reset \/ ghost_controller_reset
  THEN 1 ELSE 0

\* Mutant: every reward buffer is cleared, whatever lesson changed.
ClearedBuffers_All(lessons) == [b \in Brains |-> 0]

\* The reward buffers after end_trainer_episodes(env, lessons_incremented):
\* cleared for the brains whose lesson was incremented.
ClearedBuffers(lessons) ==
  [b \in Brains |-> IF b \in lessons THEN 0 ELSE reward_buffer[b]]

\* The lesson increments meta_curriculum.increment_lessons may report: the
\* brains (with a trainer) whose lesson changed; none without a curriculum.
LessonChoices == IF meta_curriculum THEN SUBSET DOMAIN trainers ELSE { {} }

\* One pass of the "for _ in range(n_steps)" body up to the checkpoint test:
\* global_step += 1 and reset_env_if_ready(env_manager, global_step), whose
\* episode-end reset resets the environment, ends every trainer's episode
\* and clears the reward buffers of the brains whose lesson changed.
Step ==
  /\ pc = "step"
  /\ global_step' = global_step + 1
  /\ \E lessons \in LessonChoices, ghost \in BOOLEAN :
       LET calls == ResetCalls(lessons # {},
                               GeneralizationReset(global_step + 1), ghost)
           none == [NoReset EXCEPT
                      !.lessons = lessons, !.ghost = ghost, !.calls = calls,
                      !.env_resets = calls,
                      !.generalization_reset =
                         GeneralizationReset(global_step + 1),
                      !.modulo_by = ModuloDivisors(global_step + 1)]
       IN  IF calls > 0
           THEN \E sampled \in SampledParams,
                   curriculum \in CurriculumConfigs :
                  /\ reset_info' =
                       [none EXCEPT
                          !.end_episodes = DOMAIN trainers,
                          !.sampled = sampled,
                          !.curriculum = curriculum,
                          !.config = ResetEnv(sampled, curriculum),
                          !.trace = EndTrainerEpisodes(lessons)]
                  /\ reward_buffer' = ClearedBuffers(lessons)
           ELSE /\ reset_info' = none
                /\ reward_buffer' = reward_buffer
  /\ pc' = "save"
  /\ UNCHANGED <<cfg, fac, steps_left, advance_calls,
                 last_brain_behavior_ids,
                 external_brain_behavior_ids, new_behavior_ids, raised,
                 escaping, reg, kill_trainers, should_still_train, thread, log,
                 steps_done, gen_count>>

\* The same pass when env.reset of the episode-end reset raises: no episode
\* is ended and no buffer is cleared.
StepResetFails ==
  /\ pc = "step"
  /\ global_step' = global_step + 1
  /\ \E lessons \in LessonChoices, ghost \in BOOLEAN :
       LET calls == ResetCalls(lessons # {},
                               GeneralizationReset(global_step + 1), ghost)
       IN  /\ calls > 0
           /\ reset_info' =
                [NoReset EXCEPT
                   !.lessons = lessons, !.ghost = ghost, !.calls = 1,
                   !.env_resets = 1,
                   !.generalization_reset =
                      GeneralizationReset(global_step + 1),
                   !.modulo_by = ModuloDivisors(global_step + 1),
                   !.trace = << <<"env.reset">> >>]
  /\ \E e \in EnvFailures : Throw(e)
  /\ UNCHANGED <<cfg, fac, reg, kill_trainers, tst, thread, log, steps_done,
                 gen_count>>

\* ------------------------------------------------------- lines 253-254
\* The checkpoint test of the pass, and the end of the pass.
SaveCheck ==
  /\ pc = "save"
  /\ log' = IF ShouldSaveModel(global_step)
            THEN Append(log, SaveModel("loop")) ELSE log
  /\ steps_done' = global_step
  /\ steps_left' = steps_left - 1
  /\ advance_calls' = advance_calls
  /\ pc' = IF steps_left = 1 THEN "loop" ELSE "step"
  /\ reset_info' = NoReset
  /\ UNCHANGED <<cfg, fac, global_step, last_brain_behavior_ids,
                 external_brain_behavior_ids, new_behavior_ids, raised,
                 escaping, reg, kill_trainers, tst, thread, gen_count>>

\* A KeyboardInterrupt arrives while the control thread is in the loop.
Interrupt ==
  /\ pc \in {"loop", "create", "start_thread", "step", "save"}
  /\ Throw("KeyboardInterrupt")
  /\ UNCHANGED <<cfg, fac, global_step, reg, kill_trainers, tst, thread, hist>>

\* ------------------------------------------------ loop exit, 256-259
\* join_threads(): the flag is set and every thread is waited for, for a
\* bounded time each; a worker that has not ended by then is left running.
JoinThreads(next) ==
  /\ kill_trainers' = TRUE
  /\ log' = Append(log, <<"join">>)
  /\ pc' = next

Join ==
  /\ pc = "join"
  /\ JoinThreads("final")
  /\ UNCHANGED <<cfg, fac, global_step, steps_left, advance_calls,
                 last_brain_behavior_ids,
                 external_brain_behavior_ids, new_behavior_ids, raised,
                 escaping, reg, tst, thread, steps_done, gen_count,
                 reset_info>>

\* Mutant: the final save is skipped when the cadence saved at this step.
FinalSaveDue_UnlessSaved ==
  global_step # 0 /\ train_model /\ global_step % save_freq # 0

\* The condition of the final save (line 258).
FinalSaveDue == global_step # 0 /\ train_model

FinalSave ==
  /\ pc = "final"
  /\ log' = IF FinalSaveDue THEN Append(log, SaveModel("final")) ELSE log
  /\ pc' = "finally"
  /\ UNCHANGED <<cfg, fac, global_step, steps_left, advance_calls,
                 last_brain_behavior_ids,
                 external_brain_behavior_ids, new_behavior_ids, raised,
                 escaping, reg, kill_trainers, tst, thread, steps_done,
                 gen_count, reset_info>>

\* ------------------------------------------- the except clause, 260-277
ExceptJoin ==
  /\ pc = "except"
  /\ JoinThreads("interrupted")
  /\ UNCHANGED <<cfg, fac, global_step, steps_left, advance_calls,
                 last_brain_behavior_ids,
                 external_brain_behavior_ids, new_behavior_ids, raised,
                 escaping, reg, tst, thread, steps_done, gen_count,
                 reset_info>>

\* Mutant: the save on interruption is not gated on train_model.
InterruptSaveDue_Ungated == TRUE

\* The condition of the save on interruption (line 267).
InterruptSaveDue == train_model

\* Whether the except clause lets the call return (lines 270-273) instead
\* of raising the exception again.
SwallowedByHandler(e) == e \in Swallowed

\* _save_model_when_interrupted() when due, its post delivered, and then
\* the end of the except clause: pass, or raise ex.
SaveModelWhenInterrupted ==
  /\ pc = "interrupted"
  /\ log' = IF InterruptSaveDue
            THEN log \o << SaveModel("interrupt"), <<"notify">> >>
            ELSE log
  /\ escaping' = IF SwallowedByHandler(raised) THEN "none" ELSE raised
  /\ pc' = "finally"
  /\ UNCHANGED <<cfg, fac, global_step, steps_left, advance_calls,
                 last_brain_behavior_ids,
                 external_brain_behavior_ids, new_behavior_ids, raised, reg,
                 kill_trainers, tst, thread, steps_done, gen_count,
                 reset_info>>

\* _save_model_when_interrupted() when requests.post raises (no listener
\* answers at trainee_url): the exception leaves the except clause.
NotifyFails ==
  /\ pc = "interrupted"
  /\ InterruptSaveDue
  /\ log' = log \o << SaveModel("interrupt"), <<"notify">> >>
  /\ escaping' = "post"
  /\ pc' = "finally"
  /\ UNCHANGED <<cfg, fac, global_step, steps_left, advance_calls,
                 last_brain_behavior_ids,
                 external_brain_behavior_ids, new_behavior_ids, raised, reg,
                 kill_trainers, tst, thread, steps_done, gen_count,
                 reset_info>>

\* ------------------------------------------- the finally block, 278-280
\* Mutant: the export of the finally block is not gated on train_model.
ExportDue_Ungated == TRUE

\* The condition of the export (line 279).
ExportDue == train_model

Finally ==
  /\ pc = "finally"
  /\ log' = IF ExportDue THEN Append(log, ExportGraph) ELSE log
  /\ pc' = "done"
  /\ UNCHANGED <<cfg, fac, global_step, steps_left, advance_calls,
                 last_brain_behavior_ids,
                 external_brain_behavior_ids, new_behavior_ids, raised,
                 escaping, reg, kill_trainers, tst, thread, steps_done,
                 gen_count, reset_info>>

\* --------------------------------------- trainer_update_func, 367-370
\* Mutant: the worker's loop does not test the flag.
WorkerTop_IgnoresFlag(b) ==
  /\ thread[b] = "running"
  /\ thread' = [thread EXCEPT ![b] = "advancing"]
  /\ UNCHANGED <<cfg, fac, ctl, reg, kill_trainers, tst, hist>>

\* The top of a worker's loop: the flag is read.
WorkerTop(b) ==
  /\ thread[b] = "running"
  /\ thread' = [thread EXCEPT ![b] = IF kill_trainers THEN "exited"
                                     ELSE "advancing"]
  /\ UNCHANGED <<cfg, fac, ctl, reg, kill_trainers, tst, hist>>

\* The worker's trainer.advance() returns.
WorkerAdvance(b) ==
  /\ thread[b] = "advancing"
  /\ \E dstep \in SUBSET {b}, drew \in SUBSET {b} :
       TrainerAdvance({b}, dstep, drew)
  /\ thread' = [thread EXCEPT ![b] = "running"]
  /\ UNCHANGED <<cfg, fac, ctl, reg, kill_trainers, hist>>

Next ==
  \/ CreateModelPath
  \/ InitialReset
  \/ LoopTest
  \/ \E id \in Ids : CreateTrainerAndManager(id)
  \/ \E b \in Brains : StartThread(b)
  \/ \E id \in Ids : GenerateFails(id)
  \/ \E id \in Ids : WiringFails(id)
  \/ Advance
  \/ EnvAdvanceFails
  \/ TrainerAdvanceFails
  \/ Step
  \/ StepResetFails
  \/ SaveCheck
  \/ Interrupt
  \/ Join
  \/ FinalSave
  \/ ExceptJoin
  \/ SaveModelWhenInterrupted
  \/ NotifyFails
  \/ Finally
  \/ \E b \in Brains : WorkerTop(b)
  \/ \E b \in Brains : WorkerAdvance(b)

\* One behavior of each brain: brain A's trainer is threaded, brain B's is
\* synchronous.
OnePerBrain == { <<"A", "?", "0">>, <<"B", "?", "0">> }

\* Runs over every checkpoint configuration (train_model, save_freq) and
\* every growing sequence of identifier sets the environment may report,
\* several identifiers of one brain among them; the ghost controller is the
\* one reset trigger.
Init ==
  /\ train_model \in BOOLEAN
  /\ save_freq \in 1..MaxFreq
  /\ resampling_interval = None
  /\ sampler_empty = TRUE
  /\ meta_curriculum = FALSE
  /\ env_behaviors = Ids
  /\ env_keeps_behaviors = TRUE
  /\ trainer_config = CompleteConfig
  /\ Constructed

Spec == Init /\ [][Next]_vars

\* Runs over every reset configuration under a meta curriculum (sampler
\* empty or not, every resampling interval), with training enabled and one
\* behavior of each brain.
InitReset ==
  /\ train_model = TRUE
  /\ save_freq = MaxFreq
  /\ resampling_interval \in Intervals
  /\ sampler_empty \in BOOLEAN
  /\ meta_curriculum = TRUE
  /\ env_behaviors = OnePerBrain
  /\ env_keeps_behaviors = TRUE
  /\ trainer_config = CompleteConfig
  /\ Constructed

SpecReset == InitReset /\ [][Next]_vars

\* The steps of the control thread from the loop's end or the except clause
\* to the end of the call: none of them waits for anything but a join with
\* a timeout.
Shutdown ==
  Join \/ FinalSave \/ ExceptJoin \/ SaveModelWhenInterrupted \/ NotifyFails
    \/ Finally

\* The runs of Spec in which the control thread, once out of the loop, goes
\* on to the end of the call, and a running worker thread gets to the top
\* of its loop; a worker's trainer.advance() may never return.
SpecLive ==
  /\ Init
  /\ [][Next]_vars
  /\ WF_vars(Shutdown)
  /\ \A b \in Brains : WF_vars(WorkerTop(b))

\* Runs of a training with an environment whose reports may drop an
\* identifier and bring it back: every sequence of identifier sets.
InitIds ==
  /\ train_model = TRUE
  /\ save_freq = 1
  /\ resampling_interval = None
  /\ sampler_empty = TRUE
  /\ meta_curriculum = FALSE
  /\ env_behaviors = Ids
  /\ env_keeps_behaviors = FALSE
  /\ trainer_config = CompleteConfig
  /\ Constructed

SpecIds == InitIds /\ [][Next]_vars

\* ----------------------------------- TrainerFactory.generate on its own
\* trainer_factory.generate(brain_name) for a brain, called once.
FactoryGenerate(brain) ==
  /\ generated = NotGenerated
  /\ generated' = InitializeTrainer(trainer_config, brain)
  /\ UNCHANGED <<cfg, trainer_config, ctl, reg, kill_trainers, tst, thread,
                 hist>>

NextFactory == \E brain \in Brains : FactoryGenerate(brain)

\* One call of generate under every trainer_config, with no run started.
InitFactory ==
  /\ train_model = TRUE
  /\ save_freq = 1
  /\ resampling_interval = None
  /\ sampler_empty = TRUE
  /\ meta_curriculum = FALSE
  /\ env_behaviors = Ids
  /\ env_keeps_behaviors = TRUE
  /\ trainer_config \in TrainerConfigs
  /\ Constructed

SpecFactory == InitFactory /\ [][NextFactory]_vars


\* ============================================================== claims
\* The entries of log that are checkpoint rounds of the given place.
IsLoopSave(e) == e[1] = "save" /\ e[2] = "loop"
IsSave(e) == e[1] = "save"
IsExport(e) == e[1] = "export"

InLoopSaves == SelectSeq(log, IsLoopSave)

\* The steps of a sequence of checkpoint rounds.
StepsOf(saves) == [i \in 1..Len(saves) |-> saves[i][3]]

\* f, 2f, 3f, ... up to k, in increasing order.
MultiplesUpTo(f, k) == [i \in 1..(k \div f) |-> i * f]

BrainA == <<"A">>
BrainB == <<"B">>

\* C1: trainer_factory.generate is called at most once for a brain name and
\* exactly once for a brain that has a trainer; every identifier bound to a
\* brain parses to that brain's name and shares the one trainer stored for
\* it; and unless a creation failed, generate was called only for brains
\* that have a trainer with an identifier bound.
C1_OneTrainerPerBrain ==
  \A b \in Brains :
    /\ gen_count[b] <= 1
    /\ b \in DOMAIN trainers => gen_count[b] = 1
    /\ \A id \in brain_name_to_identifier[b] :
         BrainName(id) = b /\ b \in DOMAIN trainers
    /\ (gen_count[b] = 1 /\ raised # "other") =>
         (b \in DOMAIN trainers /\ brain_name_to_identifier[b] # {})

\* Both identifiers of brain A are bound, one of them after the first
\* iteration, and generate was called once for A.
C1_Witness ==
  /\ Cardinality(brain_name_to_identifier[BrainA]) = 2
  /\ gen_count[BrainA] = 1
  /\ pc = "create"
  /\ Cardinality(last_brain_behavior_ids \cap brain_name_to_identifier[BrainA]) = 1
  /\ new_behavior_ids = {}
  /\ Cardinality(external_brain_behavior_ids \cap brain_name_to_identifier[BrainA]) = 2

\* C2: the in-loop checkpoint rounds performed so far are, in order, one at
\* each multiple of save_freq among the steps whose loop body has run, when
\* training is enabled, and none at all when it is not.
C2_InLoopSaveCadence ==
  StepsOf(InLoopSaves) =
    IF train_model THEN MultiplesUpTo(save_freq, steps_done) ELSE <<>>

\* Two in-loop rounds with a save_freq above 1.
C2_Witness ==
  /\ save_freq = MaxFreq
  /\ Len(InLoopSaves) = 2
  /\ pc = "loop"

\* C3 as stated: every checkpoint round, in-loop, final or on interruption,
\* is at a multiple of save_freq, with training enabled.
C3_Original ==
  \A i \in 1..Len(log) :
    IsSave(log[i]) => (log[i][3] % save_freq = 0 /\ train_model)

\* C3 amended: every checkpoint round is made with training enabled; an
\* in-loop round is at a positive multiple of save_freq; the final round and
\* the round on interruption are at the step the run has reached, a
\* multiple or not.
C3_SavesGated ==
  \A i \in 1..Len(log) :
    IsSave(log[i]) =>
      /\ train_model
      /\ IsLoopSave(log[i]) => (log[i][3] % save_freq = 0 /\ log[i][3] > 0)
      /\ ~IsLoopSave(log[i]) => log[i][3] = global_step

\* A final round at a step that is no multiple of save_freq.
C3_Witness ==
  /\ pc = "done"
  /\ global_step % save_freq # 0
  /\ \E i \in 1..Len(log) : log[i] = <<"save", "final", global_step>>

\* The resampling trigger at step s, from the configuration.
ResamplingBoundary(s) ==
  /\ ~sampler_empty
  /\ resampling_interval \notin { None, Some(0) }
  /\ s # 0
  /\ s % resampling_interval[1] = 0

\* C4: in a step, reset_env_if_ready calls end_trainer_episodes (and so
\* env.reset) once when a lesson advanced, the step is a resampling
\* boundary or the ghost controller asks for a reset, once also when
\* several of these hold, and not at all when none holds.
C4_OneResetPerStep ==
  /\ reset_info.calls <= 1
  /\ reset_info.env_resets = reset_info.calls
  /\ pc = "save" =>
       reset_info.calls =
         IF \/ reset_info.lessons # {}
            \/ ResamplingBoundary(global_step)
            \/ reset_info.ghost
         THEN 1 ELSE 0

\* All three triggers hold in one step, and one reset was made.
C4_Witness ==
  /\ pc = "save"
  /\ reset_info.lessons # {}
  /\ ResamplingBoundary(global_step)
  /\ reset_info.ghost
  /\ reset_info.calls = 1

\* C5: a pass of reset_env_if_ready leaves a trainer's reward buffer empty
\* when an episode-end reset was made and the trainer's brain had its lesson
\* advanced in that step, and leaves it as it was otherwise.
C5_BuffersClearedForAdvancedLessons ==
  [][ (pc = "step" /\ pc' = "save") =>
        \A b \in Brains :
          reward_buffer'[b] =
            IF reset_info'.calls > 0 /\ b \in reset_info'.lessons
            THEN 0 ELSE reward_buffer[b] ]_vars

\* A reset for brain B's lesson alone, at a resampling boundary: B's buffer
\* is empty and brain A's buffer still holds its reward.
C5_Witness ==
  /\ pc = "save"
  /\ reset_info.calls = 1
  /\ reset_info.lessons = {BrainB}
  /\ ResamplingBoundary(global_step)
  /\ reward_buffer[BrainB] = 0
  /\ reward_buffer[BrainA] = 1

\* C6 as stated: with training disabled and no trainer, the loop test does
\* not start an iteration.
C6_Original ==
  [][ (pc = "loop" /\ ~train_model /\ DOMAIN trainers = {}) =>
        pc' # "create" ]_vars

\* C6 amended: with training disabled and no trainer, the loop test never
\* ends the loop (only an exception does), and neither a checkpoint round
\* nor an export round is ever performed with training disabled.
C6_InferenceLoopGoesOn ==
  /\ [][ (pc = "loop" /\ ~train_model /\ DOMAIN trainers = {}) =>
           pc' # "join" ]_vars
  /\ [](~train_model /\ DOMAIN trainers = {} =>
          \A i \in 1..Len(log) : log[i][1] \notin {"save", "export"})

\* Training is disabled, no trainer exists, and the loop is at its test
\* again after an iteration.
C6_Witness ==
  /\ ~train_model
  /\ DOMAIN trainers = {}
  /\ pc = "loop"
  /\ global_step > 0

\* C7: with training disabled the log holds no checkpoint round and no
\* export round, on any path.
C7_NoSaveNoExportInInference ==
  ~train_model =>
    \A i \in 1..Len(log) : ~IsSave(log[i]) /\ ~IsExport(log[i])

\* An inference run with bound trainers, ended by an exception the except
\* clause does not name, has left the call.
C7_Witness ==
  /\ ~train_model
  /\ pc = "done"
  /\ raised = "other"
  /\ BoundIds # {}
  /\ global_step > 0

\* C8: a training run that left the loop by its test at step G > 0 and has
\* returned performed exactly: the in-loop rounds at the multiples of
\* save_freq up to G in increasing order, the join, the final round at G,
\* and one export.
C8_NormalExitSequence ==
  (pc = "done" /\ raised = "none" /\ escaping = "none" /\ train_model
     /\ global_step > 0) =>
    log = [i \in 1..(global_step \div save_freq) |->
             <<"save", "loop", i * save_freq>>]
          \o << <<"join">>, <<"save", "final", global_step>>, <<"export">> >>

\* Such a run with two in-loop rounds.
C8_Witness ==
  /\ pc = "done"
  /\ raised = "none"
  /\ escaping = "none"
  /\ train_model
  /\ global_step \div save_freq = 2
  /\ save_freq = MaxFreq

\* What the except clause and the finally block add to the log when
\* training is enabled: join, checkpoint round, notification, export.
ShutdownProtocol ==
  << <<"join">>, <<"save", "interrupt", global_step>>, <<"notify">>,
     <<"export">> >>

\* The log from the join on.
RECURSIVE FromJoin(_)
FromJoin(l) ==
  IF l = <<>> \/ Head(l) = <<"join">> THEN l ELSE FromJoin(Tail(l))

\* C9: after a KeyboardInterrupt or a UnityCommunicatorStoppedException
\* raised in the loop (at a step above 0) with training enabled, the call has joined the
\* threads, made one checkpoint round, sent one notification, made one
\* export round, and returns with no exception.
C9_CleanShutdown ==
  (pc = "done" /\ raised \in Swallowed /\ train_model /\ global_step > 0) =>
    (FromJoin(log) = ShutdownProtocol /\ escaping = "none")

\* C10: after a UnityCommunicationException or UnityEnvironmentException
\* raised in the loop (at a step above 0) with training enabled, the call has joined the
\* threads, made a checkpoint round, sent the notification, made the
\* export round, and the same exception leaves the call.
C10_FailureReraised ==
  (pc = "done" /\ raised \in (Handled \ Swallowed) /\ train_model
     /\ global_step > 0) =>
    (FromJoin(log) = ShutdownProtocol /\ escaping = raised)

\* C11: when the except clause ran, the call ends as the clause decides: it
\* returns after a KeyboardInterrupt or a UnityCommunicatorStoppedException
\* and raises the environment's failure again otherwise; a failure of the
\* notification's delivery neither leaves the call nor replaces that outcome,
\* and the export round is made when training is enabled.
C11_DeliveryFailureContained ==
  (pc = "done" /\ raised \in Handled) =>
    /\ escaping # "post"
    /\ escaping = IF raised \in Swallowed THEN "none" ELSE raised
    /\ train_model => log[Len(log)] = <<"export">>

\* C12: a policy and an agent manager are created and set at most once for
\* an identifier, whatever sets of active identifiers the environment
\* reports from one iteration to the next.
C12_WiredOnce ==
  \A id \in Ids : agent_managers[id] <= 1

\* The call was left by the failure of _create_model_path, in front of the
\* try block: no model directory exists.
LeftBeforeTry == raised = "none" /\ escaping = "UnityEnvironmentException"

\* C13: with training enabled, a call that has ended otherwise than by the
\* failure of _create_model_path made exactly one export round, as the last
\* entry of its log, whether it ended by the loop's test, by an exception
\* the except clause names or by one it does not name; and no export round
\* is made before the call ends.
C13_OneExportOnEveryWayOut ==
  /\ (pc = "done" /\ train_model /\ ~LeftBeforeTry) =>
       /\ Len(SelectSeq(log, IsExport)) = 1
       /\ IsExport(log[Len(log)])
  /\ pc # "done" => SelectSeq(log, IsExport) = <<>>

\* A training run ended at a step above 0 by an exception the except clause
\* does not name (a trainer error), with identifiers bound.
C13_Witness ==
  /\ pc = "done"
  /\ train_model
  /\ raised = "other"
  /\ escaping = "other"
  /\ global_step > 0
  /\ BoundIds # {}

\* C14: the loop test starts another iteration exactly when no trainer
\* exists, or training is disabled, or some trainer still wants to train,
\* and ends the loop otherwise; so a run with training disabled never leaves
\* the loop by its test (it is never at the join or the final save of the
\* loop's exit).
C14_LoopCondition ==
  /\ [][ (pc = "loop" /\ pc' \in {"create", "join"}) =>
           (pc' = "create" <=>
              \/ DOMAIN trainers = {}
              \/ ~train_model
              \/ \E b \in DOMAIN trainers : should_still_train[b]) ]_vars
  /\ [](~train_model => pc \notin {"join", "final"})

\* A training run left the loop by its test after some steps, both brains
\* having a trainer that no longer wants to train.
C14_Witness ==
  /\ pc = "join"
  /\ train_model
  /\ DOMAIN trainers = Brains
  /\ \A b \in Brains : ~should_still_train[b]
  /\ global_step > 0

\* C15: a step that changes a trainer's reward buffer or its step budget is
\* a step of the thread that advances the trainer: for a threaded trainer
\* the return of its worker's advance, with the control thread where it
\* was; for a synchronous trainer a step of the control thread, no worker
\* moving.
C15_OwnerWritesOnly ==
  [][ \A b \in DOMAIN trainers :
        ( \/ reward_buffer'[b] # reward_buffer[b]
          \/ should_still_train'[b] # should_still_train[b] ) =>
          IF trainers[b].threaded
          THEN thread[b] = "advancing" /\ thread'[b] = "running" /\ pc' = pc
          ELSE thread' = thread /\ pc' # pc ]_vars

\* C16: kill_trainers is false as long as the control thread is in the loop
\* or in front of it; it changes only in join_threads and is never cleared;
\* once it is set, a worker at the top of its loop exits; and the control
\* thread, once at a join, reaches the end of the call, whether or not a
\* worker ever returns from advance.
C16_WorkerShutdown ==
  /\ [](pc \in {"start", "reset", "loop", "create", "start_thread",
                 "step", "save"} => ~kill_trainers)
  /\ [][ kill_trainers' # kill_trainers =>
           (pc \in {"join", "except"} /\ kill_trainers') ]_vars
  /\ \A b \in Brains :
       (kill_trainers /\ thread[b] = "running") ~> (thread[b] = "exited")
  /\ (pc \in {"join", "except"}) ~> (pc = "done")

\* The call has ended by the loop's test with the final save and the export
\* made, while brain A's worker is still inside advance: it was abandoned.
C16_Witness ==
  /\ pc = "done"
  /\ kill_trainers
  /\ thread[BrainA] = "advancing"
  /\ Len(log) >= 3
  /\ log[Len(log) - 1] = <<"save", "final", global_step>>
  /\ IsExport(log[Len(log)])

\* C17: when advance(env) returns, whatever the number of steps of the
\* batch, the control thread has called advance once on every trainer that
\* is not threaded and on no threaded one; and a trainer that has a worker
\* thread is never advanced by the control thread.
C17_SyncAdvancedOnce ==
  /\ [][ (pc = "create" /\ pc' \in {"loop", "step"}) =>
           \A b \in Brains :
             advance_calls'[b] =
               IF b \in DOMAIN trainers /\ ~trainers[b].threaded
               THEN 1 ELSE 0 ]_vars
  /\ [](\A b \in Brains : thread[b] # "none" => advance_calls[b] = 0)

\* advance(env) has returned in an iteration with both trainers known:
\* brain B's was advanced once, brain A's is inside its worker's advance.
C17_Witness ==
  /\ pc = "loop"
  /\ steps_done = global_step
  /\ advance_calls[BrainB] = 1
  /\ advance_calls[BrainA] = 0
  /\ thread[BrainA] = "advancing"
  /\ global_step > 0

\* How often brain b is in the list of thread handles.
HandlesOf(b) ==
  Cardinality({ i \in 1..Len(trainer_threads) : trainer_threads[i] = b })

\* C18: trainer_threads holds one handle for every threaded trainer of the
\* trainer map and nothing else, so its length is the number of threaded
\* trainers; a brain has a worker thread exactly when it has a threaded
\* trainer; and a worker thread comes into being only in the step that
\* stores a new, threaded trainer for its brain.
C18_OneWorkerPerThreadedTrainer ==
  /\ [](/\ Len(trainer_threads) =
             Cardinality({ b \in DOMAIN trainers : trainers[b].threaded })
        /\ \A b \in Brains :
             /\ HandlesOf(b) =
                  IF b \in DOMAIN trainers /\ trainers[b].threaded
                  THEN 1 ELSE 0
             /\ thread[b] # "none" <=>
                  (b \in DOMAIN trainers /\ trainers[b].threaded))
  /\ [][ \A b \in Brains :
           (thread[b] = "none" /\ thread'[b] # "none") =>
             /\ b \notin DOMAIN trainers
             /\ b \in DOMAIN trainers'
             /\ trainers'[b].threaded ]_vars

\* Both identifiers of brain A are bound, one of them wired twice, and
\* brain B has its trainer: one handle, of brain A's running worker.
C18_Witness ==
  /\ Cardinality(brain_name_to_identifier[BrainA]) = 2
  /\ \E id \in brain_name_to_identifier[BrainA] : agent_managers[id] = 2
  /\ BrainB \in DOMAIN trainers
  /\ trainer_threads = <<BrainA>>
  /\ thread[BrainA] \in {"running", "advancing"}
  /\ thread[BrainB] = "none"

\* C19: the resampling trigger evaluated at step s is true exactly when the
\* sampler is not empty, s is not 0, an interval other than 0 is configured
\* and s is a multiple of it; with the interval unset or 0 it is false at
\* every step, and the modulo is never taken by an unset or zero interval.
C19_ResamplingTrigger ==
  /\ pc = "save" =>
       (reset_info.generalization_reset <=>
          /\ ~sampler_empty
          /\ global_step # 0
          /\ resampling_interval # None
          /\ resampling_interval # Some(0)
          /\ global_step % resampling_interval[1] = 0)
  /\ resampling_interval \in { None, Some(0) } =>
       ~reset_info.generalization_reset
  /\ reset_info.modulo_by \cap { None, Some(0) } = {}

\* The trigger alone made the reset of a step: the step is a multiple of the
\* interval, no lesson advanced and the ghost controller asked for nothing.
C19_Witness ==
  /\ pc = "save"
  /\ reset_info.generalization_reset
  /\ reset_info.lessons = {}
  /\ ~reset_info.ghost
  /\ reset_info.calls = 1
  /\ resampling_interval = Some(MaxInterval)
  /\ global_step = MaxInterval

\* The positions of the calls of one kind in the calls of a reset.
CallsOf(kind) ==
  { i \in 1..Len(reset_info.trace) : reset_info.trace[i][1] = kind }

\* C20: the config a reset passes to env.reset, the initial reset as well as
\* an episode-end reset, holds every key of the sampled parameters and of
\* the curriculum configuration, with the curriculum's value on a key of
\* both; and an episode-end reset first resets the environment, then calls
\* end_episode once on every trainer of the trainer map, and only then
\* clears any reward buffer.
C20_ResetProtocol ==
  /\ DOMAIN reset_info.config =
       DOMAIN reset_info.sampled \cup DOMAIN reset_info.curriculum
  /\ \A k \in DOMAIN reset_info.curriculum :
       reset_info.config[k] = reset_info.curriculum[k]
  /\ \A k \in DOMAIN reset_info.sampled \ DOMAIN reset_info.curriculum :
       reset_info.config[k] = reset_info.sampled[k]
  /\ reset_info.trace # <<>> => CallsOf("env.reset") = {1}
  /\ (pc = "save" /\ reset_info.calls > 0) =>
       /\ \A b \in Brains :
            Cardinality({ i \in CallsOf("end_episode") :
                            reset_info.trace[i][2] = b })
              = IF b \in DOMAIN trainers THEN 1 ELSE 0
       /\ \A i \in CallsOf("end_episode") : i > 1
       /\ \A i \in CallsOf("end_episode"), j \in CallsOf("clear") : i < j
       /\ { reset_info.trace[j][2] : j \in CallsOf("clear") }
            = reset_info.lessons

\* An episode-end reset for brain B's lesson with both trainers known, whose
\* sampled parameters and curriculum configuration both hold "gravity": the
\* environment got the lesson's gravity and the sampled scale.
C20_Witness ==
  /\ pc = "save"
  /\ reset_info.calls = 1
  /\ DOMAIN trainers = Brains
  /\ reset_info.lessons = {BrainB}
  /\ DOMAIN reset_info.sampled = ResetParams
  /\ DOMAIN reset_info.curriculum = {"gravity"}
  /\ reset_info.config["gravity"] = "lesson"
  /\ reset_info.config["scale"] = "sampled"
  /\ Len(reset_info.trace) = 4

\* The steps of the current batch still owed to the global step counter,
\* added to it: the pass at its checkpoint test has counted its step and has
\* not yet left the batch.
BatchTarget == global_step + steps_left - (IF pc = "save" THEN 1 ELSE 0)

\* A step of a worker thread.
WorkerStep ==
  \E b \in Brains :
    thread[b] \in {"running", "advancing"} /\ thread'[b] # thread[b]

\* C21: the global step counter never decreases and moves by one, in a pass
\* of the batch's loop only; advance(env) leaves it as it is and the passes
\* that follow add the batch's step count to it, no more and no less, up to
\* the next loop test; a trainer of the trainer map stays in it unchanged
\* and an identifier of a binding set stays in it; and a step of a worker
\* thread changes none of the three.
C21_MonotonicState ==
  /\ [][ /\ global_step' \in { global_step, global_step + 1 }
         /\ global_step' # global_step => (pc = "step" /\ steps_left > 0)
         /\ (pc = "create" /\ pc' \in {"loop", "step"}) =>
              (global_step' = global_step /\ BatchTarget' =
                 global_step + steps_left')
         /\ (pc \in {"step", "save"} /\ pc' \in {"step", "save", "loop"}) =>
              BatchTarget' = BatchTarget
         /\ (pc = "save" /\ pc' = "loop") => steps_left' = 0 ]_vars
  /\ [][ /\ \A b \in DOMAIN trainers :
              b \in DOMAIN trainers' /\ trainers'[b] = trainers[b]
         /\ \A b \in Brains :
              brain_name_to_identifier[b] \subseteq
                brain_name_to_identifier'[b] ]_vars
  /\ [][ WorkerStep =>
           UNCHANGED <<trainers, brain_name_to_identifier, global_step>> ]_vars

\* MaxBatch steps have been counted and the control thread is back at the
\* loop test, with brain A's worker inside advance and both of brain A's
\* identifiers bound.
C21_Witness ==
  /\ pc = "loop"
  /\ global_step = MaxBatch
  /\ steps_done = MaxBatch
  /\ steps_left = 0
  /\ thread[BrainA] = "advancing"
  /\ Cardinality(brain_name_to_identifier[BrainA]) = 2
  /\ DOMAIN trainers = Brains

\* The parameters the call was made with, by the claim's words: the brain's
\* section over the default one.
Declared(k) ==
  IF generated.brain \in DOMAIN trainer_config
       /\ k \in DOMAIN trainer_config[generated.brain]
  THEN << trainer_config[generated.brain][k] >>
  ELSE IF DefaultSection \in DOMAIN trainer_config
            /\ k \in DOMAIN trainer_config[DefaultSection]
  THEN << trainer_config[DefaultSection][k] >>
  ELSE <<>>

\* C22: a call of generate raises a configuration error and returns no
\* trainer when the configuration has neither a default section nor one for
\* the brain, or declares a trainer kind other than ppo and sac (the removed
\* offline_bc among them); and when it declares ppo or sac, the call returns
\* a trainer of that kind, wrapped as a ghost trainer exactly when the
\* parameters hold "self_play"; whatever other sections the configuration
\* has.
C22_FactoryOutcome ==
  generated # NotGenerated =>
    IF DOMAIN trainer_config \cap { DefaultSection, generated.brain } = {}
    THEN generated.raises = "TrainerConfigError" /\ generated.trainer = <<>>
    ELSE IF Declared("trainer") = <<>>
    THEN generated.trainer = <<>>
    ELSE IF Declared("trainer")[1][1] \in { "ppo", "sac" }
    THEN /\ generated.raises = "none"
         /\ generated.trainer =
              << [kind |-> Declared("trainer")[1][1],
                  ghost |-> Declared("self_play") # <<>>] >>
    ELSE /\ generated.raises \in
              { "TrainerConfigError", "UnityTrainerException" }
         /\ generated.trainer = <<>>

\* Brain b has an identifier that is wired: bound, with an agent manager.
Wired(b) ==
  /\ b \in DOMAIN trainers
  /\ \E id \in brain_name_to_identifier[b] : agent_managers[id] >= 1

\* C23: a worker thread that was started belongs to a trainer with a wired
\* identifier; a thread is started only by the last step of the call that
\* made it, with that identifier wired; and a thread made by a call whose
\* wiring failed, or that an interrupt cut short, is never started.
C23_StartedAfterWiring ==
  /\ [](\A b \in Brains :
          thread[b] \in {"running", "advancing", "exited"} => Wired(b))
  /\ [][ \A b \in Brains :
           (thread[b] = "created" /\ thread'[b] # "created") =>
             /\ thread'[b] = "running"
             /\ pc = "start_thread"
             /\ Wired(b) ]_vars
  /\ [][ \A b \in Brains :
           (thread[b] = "none" /\ thread'[b] # "none") =>
             thread'[b] = "created" ]_vars

\* Brain A's first identifier is wired and brain A's thread, made in this
\* call, is about to be started.
C23_Witness ==
  /\ pc = "start_thread"
  /\ thread[BrainA] = "created"
  /\ Wired(BrainA)
  /\ Cardinality(brain_name_to_identifier[BrainA]) = 1

==========================================================================
